---- MODULE Spec2Model ----
(***************************************************************************)
(* Model of inv_analysis.py: the item equivalence rule (Item.equals), the  *)
(* world aggregate (world_inv, update_world_totals), the stack extractor   *)
(* (items_from_nbt), the chunk scan (inventories_per_chunk), the player    *)
(* scan (player_inv) and the driver loop of main.                          *)
(*                                                                         *)
(* A raw id is modelled as a record [ns, local]: ns is the text before and *)
(* including the colon ("minecraft:", "" when the id has no prefix) and    *)
(* local the rest, so that the prefix test and the prefix strip of the     *)
(* constructors are computed rather than assumed.                          *)
(***************************************************************************)
EXTENDS Integers, Sequences, FiniteSets, TLC

\* ------------------------------------------------------------------ bounds
MaxMerges == 3
MaxPlayers == 2
MaxObjects == 2

\* -------------------------------------------------------------- id tables
Mc(local) == [ns |-> "minecraft:", local |-> local]
Raw(local) == [ns |-> "", local |-> local]

valid_item_names ==
  { Mc(n) : n \in {"chest", "chest_minecart", "hopper_minecart", "shulker_box",
                   "furnace", "dispenser", "dropper", "brewing_stand", "hopper"} }

valid_mob_names ==
  { Mc(n) : n \in {"villager", "zombie_villager", "horse", "donkey", "mule"} }

degradeable_tools ==
  { Mc(n) : n \in {"bow", "carrot_on_a_stick", "diamond_axe", "diamond_hoe",
                   "diamond_horse_armor", "diamond_pickaxe", "diamond_shovel",
                   "diamond_sword", "fishing_rod", "flint_and_steel", "golden_axe",
                   "golden_hoe", "golden_horse_armor", "golden_pickaxe",
                   "golden_shovel", "golden_sword", "iron_axe", "iron_hoe",
                   "iron_horse_armor", "iron_pickaxe", "iron_shovel", "iron_sword",
                   "shears", "shield", "stone_axe", "stone_hoe", "stone_pickaxe",
                   "stone_shovel", "stone_sword"} }

degradeable_armor ==
  { Mc(n) : n \in {"chainmail_boots", "chainmail_chestplate", "chainmail_helmet",
                   "chainmail_leggings", "diamond_boots", "diamond_chestplate",
                   "diamond_helmet", "diamond_leggings", "golden_boots",
                   "golden_chestplate", "golden_helmet", "golden_leggings",
                   "iron_boots", "iron_chestplate", "iron_helmet",
                   "iron_leggings", "leather_boots", "leather_chestplate",
                   "leather_helmet", "leather_leggings"} }

\* A local variable assigned once: value is computed once and Body is
\* evaluated with the result.
With(value, Body(_)) == CHOOSE out \in { Body(v) : v \in {value} } : TRUE

\* ----------------------------------------------------------- Item objects
\* full_name[10:] when full_name.startswith('minecraft:'), else full_name
common_name(full_name) ==
  IF full_name.ns = "minecraft:" THEN Raw(full_name.local) ELSE full_name

Item(full_name, count, damage, lore) ==
  [full_name |-> full_name, common_name |-> common_name(full_name),
   count |-> count, damage |-> damage, lore |-> lore]

\* the tool branch compares the lore and forgets the name
equals_tool_lore_only(self, other) ==
  IF self.full_name \in degradeable_tools
    THEN self.lore = other.lore
    ELSE IF self.full_name \in degradeable_armor
      THEN self.full_name = other.full_name
      ELSE /\ self.full_name = other.full_name
           /\ self.damage = other.damage
           /\ self.lore = other.lore

equals(self, other) ==
  IF self.full_name \in degradeable_tools
    THEN self.full_name = other.full_name /\ self.lore = other.lore
    ELSE IF self.full_name \in degradeable_armor
      THEN self.full_name = other.full_name
      ELSE /\ self.full_name = other.full_name
           /\ self.damage = other.damage
           /\ self.lore = other.lore

set_count(item, new_count) == [item EXCEPT !.count = new_count]

\* ------------------------------------------------------- world aggregate
\* index of the first bucket of w that new_item.equals(bucket), 0 if none
RECURSIVE first_match(_, _, _)

\* the search stops one bucket early and never looks at the last bucket
first_match_short(w, new_item, i) ==
  IF i >= Len(w) THEN 0
  ELSE IF equals(new_item, w[i]) THEN i
  ELSE first_match(w, new_item, i + 1)

first_match(w, new_item, i) ==
  IF i > Len(w) THEN 0
  ELSE IF equals(new_item, w[i]) THEN i
  ELSE first_match(w, new_item, i + 1)

\* the bucket's count is overwritten instead of increased
update_world_totals_overwrite(w, new_item) ==
  LET i == first_match(w, new_item, 1) IN
    IF i # 0
      THEN [w EXCEPT ![i] = set_count(w[i], new_item.count)]
      ELSE Append(w, Item(new_item.full_name, new_item.count,
                          new_item.damage, new_item.lore))

update_world_totals(w, new_item) ==
  LET i == first_match(w, new_item, 1) IN
    IF i # 0
      THEN [w EXCEPT ![i] = set_count(w[i], w[i].count + new_item.count)]
      ELSE Append(w, Item(new_item.full_name, new_item.count,
                          new_item.damage, new_item.lore))

\* ------------------------------------------------- decoded NBT tree nodes
\* An optional field of a compound: present with a value, or absent.
Some(v) == [some |-> TRUE, val |-> v]
NoList == [some |-> FALSE, val |-> <<>>]

\* The lore path tag/display/Lore[0] of an item node, by shape:
\*   "lore"        the whole path exists, Lore[0] is the string .lore
\*   "noTag"       the node has no 'tag'
\*   "noDisplay"   'tag' has no 'display'
\*   "noLore"      'display' has no 'Lore'
\*   "emptyLore"   'Lore' is a list with no element
\*   "notCompound" an intermediate node is a scalar, not a compound
Tag(shape, lore) == [shape |-> shape, lore |-> lore]

\* An item node; has is the set of required fields it carries.
Node(has, id, count, damage, tag) ==
  [has |-> has, id |-> id, Count |-> count, Damage |-> damage, tag |-> tag]

Required == {"id", "Count", "Damage"}

\* item['tag']['display']['Lore'][0].valuestr() inside try/except KeyError:
\* a missing key is caught and gives "", an empty list raises IndexError and
\* subscripting a scalar raises TypeError, neither of which is caught.
lore_of(item) ==
  CASE item.tag.shape = "lore" -> [exc |-> "none", lore |-> item.tag.lore]
    [] item.tag.shape \in {"noTag", "noDisplay", "noLore"} -> [exc |-> "none", lore |-> ""]
    [] item.tag.shape = "emptyLore" -> [exc |-> "IndexError", lore |-> ""]
    [] OTHER -> [exc |-> "TypeError", lore |-> ""]

\* The aggregate threaded through the extractors: w is world_inv, obs the
\* list of every Item handed to update_world_totals.
merge(st, new_item) ==
  [w |-> update_world_totals(st.w, new_item), obs |-> Append(st.obs, new_item)]

RECURSIVE items_from_nbt_loop(_, _, _, _)
items_from_nbt_loop(nbtlist, verbose, items, st) ==
  IF nbtlist = <<>>
    THEN [exc |-> "none", items |-> IF verbose THEN items ELSE <<>>, st |-> st]
    ELSE LET item == Head(nbtlist) IN
      IF ~(Required \subseteq item.has)
        THEN [exc |-> "KeyError", items |-> <<>>, st |-> st]
        ELSE LET l == lore_of(item) IN
          IF l.exc # "none"
            THEN [exc |-> l.exc, items |-> <<>>, st |-> st]
            ELSE LET new_item == Item(item.id, item.Count, item.Damage, l.lore) IN
              With(merge(st, new_item), LAMBDA merged :
                With(IF verbose THEN Append(items, new_item) ELSE items, LAMBDA appended :
                  items_from_nbt_loop(Tail(nbtlist), verbose, appended, merged)))

items_from_nbt(nbtlist, verbose, st) == items_from_nbt_loop(nbtlist, verbose, <<>>, st)

\* items_from_nbt(node[field], verbose) where node[field] may be absent
\* (subscripting raises KeyError before the call)
items_of_field(field, verbose, st) ==
  IF field.some THEN items_from_nbt(field.val, verbose, st)
  ELSE [exc |-> "KeyError", items |-> <<>>, st |-> st]

\* ------------------------------------------------------ Inventory objects
Inventory(full_name, x, y, z, items) ==
  [full_name |-> full_name, common_name |-> common_name(full_name),
   x |-> x, y |-> y, z |-> z, items |-> items]

\* --------------------------------------------------------- chunk scanning
\* only the container types are looked up, the mob types are forgotten
recognized_containers_only(full_name) ==
  full_name \in valid_item_names

recognized(full_name) ==
  full_name \in valid_item_names \/ full_name \in valid_mob_names

\* the types whose item list is under 'Items' although they are Entities
items_under_Items(full_name) ==
  \/ full_name = Mc("hopper_minecart") \/ full_name = Mc("chest_minecart")
  \/ full_name = Mc("mule") \/ full_name = Mc("donkey")

\* try: Item(tag['id'], tag['Count'], tag['Damage'], ""); items.append;
\* update_world_totals; except KeyError: pass
\* the synthetic stack is appended to the list but never merged
equipment_not_merged(tag, items, st) ==
  IF tag.some /\ Required \subseteq tag.val.has
    THEN LET it == Item(tag.val.id, tag.val.Count, tag.val.Damage, "") IN
           [items |-> Append(items, it), st |-> st]
    ELSE [items |-> items, st |-> st]

equipment(tag, items, st) ==
  IF tag.some /\ Required \subseteq tag.val.has
    THEN LET it == Item(tag.val.id, tag.val.Count, tag.val.Damage, "") IN
           [items |-> Append(items, it), st |-> merge(st, it)]
    ELSE [items |-> items, st |-> st]

RECURSIVE entities_loop(_, _, _, _)
entities_loop(entities, verbose, inventories, st) ==
  IF entities = <<>>
    THEN [exc |-> "none", inventories |-> inventories, st |-> st]
    ELSE LET entity == Head(entities) IN
      IF ~recognized(entity.id)
        THEN entities_loop(Tail(entities), verbose, inventories, st)
        ELSE
          With(IF items_under_Items(entity.id)
                 THEN items_of_field(entity.Items, verbose, st)
                 ELSE items_of_field(entity.Inventory, verbose, st), LAMBDA r :
            IF r.exc \notin {"none", "KeyError"}
              THEN [exc |-> r.exc, inventories |-> inventories, st |-> r.st]
              ELSE
                With(equipment(entity.ArmorItem, r.items, r.st), LAMBDA a :
                  With(equipment(entity.SaddleItem, a.items, a.st), LAMBDA s :
                    With(IF verbose
                           THEN Append(inventories,
                                       Inventory(entity.id, entity.Pos[1], entity.Pos[2],
                                                 entity.Pos[3], s.items))
                           ELSE inventories, LAMBDA appended :
                      entities_loop(Tail(entities), verbose, appended, s.st)))))

RECURSIVE tile_entities_loop(_, _, _, _)
tile_entities_loop(entities, verbose, inventories, st) ==
  IF entities = <<>>
    THEN [exc |-> "none", inventories |-> inventories, st |-> st]
    ELSE LET entity == Head(entities) IN
      IF ~recognized(entity.id)
        THEN tile_entities_loop(Tail(entities), verbose, inventories, st)
        ELSE
          With(items_of_field(entity.Items, verbose, st), LAMBDA r :
            IF r.exc \notin {"none", "KeyError"}
              THEN [exc |-> r.exc, inventories |-> inventories, st |-> r.st]
              ELSE
                With(IF verbose
                       THEN Append(inventories,
                                   Inventory(entity.id, entity.x, entity.y, entity.z, r.items))
                       ELSE inventories, LAMBDA appended :
                  tile_entities_loop(Tail(entities), verbose, appended, r.st)))

\* result: exc the exception raised ("none": it returned), ret the returned
\* list, st the aggregate after the call
inventories_per_chunk(chunk, verbose, st) ==
  With(entities_loop(chunk.Entities, verbose, <<>>, st), LAMBDA e :
    IF e.exc # "none"
      THEN [exc |-> e.exc, ret |-> <<>>, st |-> e.st]
      ELSE
        With(tile_entities_loop(chunk.TileEntities, verbose, e.inventories, e.st), LAMBDA t :
          IF t.exc # "none"
            THEN [exc |-> t.exc, ret |-> <<>>, st |-> t.st]
            ELSE [exc |-> "none", ret |-> IF verbose THEN t.inventories ELSE <<>>,
                  st |-> t.st]))

\* ---------------------------------------------------------- player scanning
\* ret.kind: "None" (bare return), "Inventory" (verbose), "EmptyList" ([])
NoneRet == [kind |-> "None", inv |-> Inventory(Raw(""), 0, 0, 0, <<>>)]
EmptyListRet == [kind |-> "EmptyList", inv |-> Inventory(Raw(""), 0, 0, 0, <<>>)]

\* the lastPlayed test is left out
player_inv_bukkit_only(uuid, nbtfile, verbose, st) ==
  IF ~nbtfile.bukkit
    THEN [exc |-> "none", ret |-> NoneRet, st |-> st]
  ELSE With(items_of_field(nbtfile.Inventory, verbose, st), LAMBDA r :
    IF r.exc \notin {"none", "KeyError"}
      THEN [exc |-> r.exc, ret |-> NoneRet, st |-> r.st]
      ELSE LET pos == IF nbtfile.Pos.some THEN nbtfile.Pos.val ELSE <<0, 0, 0>> IN
        [exc |-> "none",
         ret |-> IF verbose
                   THEN [kind |-> "Inventory",
                         inv |-> Inventory(uuid, pos[1], pos[2], pos[3], r.items)]
                   ELSE EmptyListRet,
         st |-> r.st])

player_inv(uuid, nbtfile, verbose, st) ==
  IF ~nbtfile.bukkit
    THEN [exc |-> "none", ret |-> NoneRet, st |-> st]
  ELSE IF ~nbtfile.lastPlayed
    THEN [exc |-> "none", ret |-> NoneRet, st |-> st]
  ELSE With(items_of_field(nbtfile.Inventory, verbose, st), LAMBDA r :
    IF r.exc \notin {"none", "KeyError"}
      THEN [exc |-> r.exc, ret |-> NoneRet, st |-> r.st]
      ELSE LET pos == IF nbtfile.Pos.some THEN nbtfile.Pos.val ELSE <<0, 0, 0>> IN
        [exc |-> "none",
         ret |-> IF verbose
                   THEN [kind |-> "Inventory",
                         inv |-> Inventory(uuid, pos[1], pos[2], pos[3], r.items)]
                   ELSE EmptyListRet,
         st |-> r.st])

\* ------------------------------------------------------------- report rows
\* Coordinates are held in thousandths. '{0:.3f}'.format(v).rstrip('0')
\* .rstrip('.') keeps the whole part and drops the trailing zeros of the
\* three decimals.
RECURSIVE rstrip_zeros(_)
rstrip_zeros(digits) ==
  IF digits = <<>> THEN <<>>
  ELSE IF digits[Len(digits)] = 0 THEN rstrip_zeros(SubSeq(digits, 1, Len(digits) - 1))
  ELSE digits

format_pos(v) ==
  [whole |-> v \div 1000,
   frac |-> rstrip_zeros(<<(v % 1000) \div 100, ((v % 1000) \div 10) % 10, v % 10>>)]

print_inv_contents(inventory) ==
  [k \in 1..Len(inventory.items) |->
     <<inventory.common_name,
       format_pos(inventory.x), format_pos(inventory.y), format_pos(inventory.z),
       inventory.items[k].common_name, inventory.items[k].lore,
       inventory.items[k].damage, inventory.items[k].count>>]

RECURSIVE print_all(_)
print_all(inventories) ==
  IF inventories = <<>> THEN <<>>
  ELSE print_inv_contents(Head(inventories)) \o print_all(Tail(inventories))

print_world_contents(w) ==
  [k \in 1..Len(w) |-> <<w[k].common_name, w[k].lore, w[k].damage, w[k].count>>]

\* ------------------------------------------------------------------ state
VARIABLES
  world_inv,    \* the module-level list world_inv
  observed,     \* every Item passed to update_world_totals so far, in order
  verbose,      \* main's verbose flag
  pc,           \* main: "chunks", "players", "done" (exit 0), "crashed"
  objects_done, \* objects of the chunks iterated so far
  players_done, \* player files iterated so far
  inv_rows,     \* rows written to the inventory listing file
  world_rows,   \* rows written to the world totals file
  last          \* the last extractor call: its argument, result and the
                \* aggregate before it

vars == <<world_inv, observed, verbose, pc, objects_done, players_done,
          inv_rows, world_rows, last>>

NoCall == [fn |-> "none"]

\* ------------------------------------------- the aggregate on its own
\* stacks fed to the aggregate
Stacks ==
  { Item(Mc("iron_sword"), 1, 5, ""), Item(Mc("iron_sword"), 2, 12, ""),
    Item(Mc("iron_sword"), 1, 5, "Excalibur"),
    Item(Raw("iron_sword"), 1, 5, ""), Item(Raw("iron_sword"), 2, 12, ""),
    Item(Mc("diamond_helmet"), 1, 0, ""), Item(Mc("diamond_helmet"), 3, 3, "Crown"),
    Item(Raw("diamond_helmet"), 1, 0, ""), Item(Raw("diamond_helmet"), 2, 3, ""),
    Item(Mc("dirt"), 64, 0, ""), Item(Mc("dirt"), 16, 1, ""), Item(Mc("dirt"), 64, 0, "Soil") }

InitMerge ==
  /\ world_inv = <<>>
  /\ observed = <<>>
  /\ verbose = FALSE
  /\ pc = "chunks"
  /\ objects_done = 0
  /\ players_done = 0
  /\ inv_rows = <<>>
  /\ world_rows = <<>>
  /\ last = NoCall

MergeStack(new_item) ==
  /\ Len(observed) < MaxMerges
  /\ world_inv' = update_world_totals(world_inv, new_item)
  /\ observed' = Append(observed, new_item)
  /\ UNCHANGED <<verbose, pc, objects_done, players_done, inv_rows, world_rows, last>>

NextMerge == \E new_item \in Stacks : MergeStack(new_item)

SpecMerge == InitMerge /\ [][NextMerge]_vars

\* ------------------------------------------------------- the whole driver
\* item nodes found in the world
nStone == Node(Required, Mc("stone"), 2, 0, Tag("noTag", ""))
nTorch == Node(Required, Mc("torch"), 1, 0, Tag("noDisplay", ""))
nSword == Node(Required, Mc("iron_sword"), 1, 5, Tag("lore", "Excalibur"))
nPlain == Node(Required, Mc("iron_sword"), 1, 7, Tag("noLore", ""))
nNoCount == Node({"id", "Damage"}, Mc("stone"), 0, 0, Tag("noTag", ""))
nEmptyLore == Node(Required, Mc("dirt"), 1, 0, Tag("emptyLore", ""))
nScalarTag == Node(Required, Mc("dirt"), 1, 1, Tag("notCompound", ""))
nHorseArmor == Node(Required, Mc("iron_horse_armor"), 1, 0, Tag("noTag", ""))
nSaddle == Node(Required, Mc("saddle"), 1, 0, Tag("noTag", ""))
nNoId == Node({"Count", "Damage"}, Raw(""), 1, 0, Tag("noTag", ""))

NoNode == [some |-> FALSE, val |-> nNoId]

Entity(id, pos, Items, Inv, ArmorItem, SaddleItem) ==
  [id |-> id, Pos |-> pos, Items |-> Items, Inventory |-> Inv,
   ArmorItem |-> ArmorItem, SaddleItem |-> SaddleItem]

TileEntity(id, x, y, z, Items) ==
  [id |-> id, x |-> x, y |-> y, z |-> z, Items |-> Items]

\* live entities of a chunk; every one has its own position
LiveEntities ==
  { Entity(Mc("horse"), <<1500, 64000, 0>>, NoList, NoList, Some(nHorseArmor), Some(nSaddle)),
    Entity(Mc("donkey"), <<2000, 64000, 250>>, Some(<<nStone>>), NoList, NoNode, Some(nSaddle)),
    Entity(Mc("chest_minecart"), <<3000, 12000, 0>>, Some(<<nStone, nNoCount, nTorch>>),
           NoList, NoNode, NoNode),
    Entity(Mc("hopper_minecart"), <<4000, 12000, 0>>, Some(<<nTorch>>), NoList,
           Some(nHorseArmor), NoNode),
    Entity(Mc("villager"), <<5000, 70000, 20>>, NoList, Some(<<nPlain, nSword>>),
           Some(nNoCount), Some(nSaddle)),
    Entity(Mc("zombie_villager"), <<6000, 70000, 0>>, NoList,
           Some(<<nSword, nEmptyLore, nStone>>), NoNode, NoNode),
    Entity(Mc("pig"), <<7000, 64000, 0>>, Some(<<nStone>>), Some(<<nStone>>),
           NoNode, Some(nSaddle)) }

\* block-anchored entities of a chunk
TileEntities ==
  { TileEntity(Mc("chest"), 10000, 64000, 10000, Some(<<nStone, nTorch>>)),
    TileEntity(Mc("furnace"), 11000, 64000, 10000, Some(<<nTorch, nNoCount, nSword>>)),
    TileEntity(Mc("hopper"), 12000, 64000, 10000, NoList),
    TileEntity(Mc("dispenser"), 13000, 64000, 10000, Some(<<nTorch, nScalarTag>>)),
    TileEntity(Mc("sign"), 14000, 64000, 10000, Some(<<nStone>>)) }

\* the sequences of n elements of S
RECURSIVE SeqsOfLen(_, _)
SeqsOfLen(S, n) ==
  IF n = 0 THEN { <<>> }
  ELSE { Append(s, a) : s \in SeqsOfLen(S, n - 1), a \in S }

\* the chunks of a world of at most MaxObjects objects
Chunks ==
  UNION { { [Entities |-> e, TileEntities |-> t] :
              e \in SeqsOfLen(LiveEntities, n[1]), t \in SeqsOfLen(TileEntities, n[2]) } :
          n \in { p \in (0..MaxObjects) \X (0..MaxObjects) : p[1] + p[2] <= MaxObjects } }

PlayerSave(bukkit, lastPlayed, Inv, Pos) ==
  [bukkit |-> bukkit, lastPlayed |-> lastPlayed, Inventory |-> Inv, Pos |-> Pos]

NoPos == [some |-> FALSE, val |-> <<0, 0, 0>>]

\* decoded files named like a player save
PlayerSaves ==
  { PlayerSave(TRUE, TRUE, Some(<<nStone, nSword>>), Some(<<100020, 64000, 0>>)),
    PlayerSave(TRUE, TRUE, NoList, NoPos),
    PlayerSave(FALSE, FALSE, Some(<<nStone>>), Some(<<200000, 64000, 0>>)),
    PlayerSave(TRUE, FALSE, Some(<<nTorch>>), Some(<<300000, 64000, 0>>)),
    PlayerSave(FALSE, FALSE, Some(<<nSword, nEmptyLore>>), NoPos) }

Uuids == { Raw("069a79f4-44e9-4726-a5be-fca90e38aaf5") }

Init ==
  /\ world_inv = <<>>
  /\ observed = <<>>
  /\ verbose \in BOOLEAN
  /\ pc = "chunks"
  /\ objects_done = 0
  /\ players_done = 0
  /\ inv_rows = <<>>
  /\ world_rows = <<>>
  /\ last = NoCall

\* main, lines 394-396: one iteration of the loop over the world's chunks
ChunkStep(chunk) ==
  /\ pc = "chunks"
  /\ objects_done + Len(chunk.Entities) + Len(chunk.TileEntities) <= MaxObjects
  /\ \E r \in { inventories_per_chunk(chunk, verbose, [w |-> world_inv, obs |-> observed]) } :
       /\ world_inv' = r.st.w
       /\ observed' = r.st.obs
       /\ last' = [fn |-> "chunk", arg |-> chunk, ret |-> r.ret, raised |-> r.exc,
                   before |-> world_inv, nobs |-> Len(observed)]
       /\ IF r.exc # "none"
            THEN pc' = "crashed" /\ UNCHANGED inv_rows
            ELSE pc' = "chunks" /\ inv_rows' = inv_rows \o print_all(r.ret)
  /\ objects_done' = objects_done + Len(chunk.Entities) + Len(chunk.TileEntities)
  /\ UNCHANGED <<verbose, players_done, world_rows>>

\* main, lines 398-405: one player file of the walk, after the chunk loop
PlayerStep(uuid, nbtfile) ==
  /\ pc \in {"chunks", "players"}
  /\ players_done < MaxPlayers
  /\ \E r \in { player_inv(uuid, nbtfile, verbose, [w |-> world_inv, obs |-> observed]) } :
       /\ world_inv' = r.st.w
       /\ observed' = r.st.obs
       /\ last' = [fn |-> "player", arg |-> nbtfile, ret |-> r.ret, raised |-> r.exc,
                   before |-> world_inv, nobs |-> Len(observed)]
       /\ IF r.exc # "none"
            THEN pc' = "crashed" /\ UNCHANGED inv_rows
          ELSE IF ~verbose
            THEN pc' = "players" /\ UNCHANGED inv_rows
          ELSE IF r.ret.kind = "None"
            \* print_inv_contents(None, ...): None has no attribute 'items'
            THEN pc' = "crashed" /\ UNCHANGED inv_rows
            ELSE pc' = "players" /\ inv_rows' = inv_rows \o print_inv_contents(r.ret.inv)
  /\ players_done' = players_done + 1
  /\ UNCHANGED <<verbose, objects_done, world_rows>>

\* main, lines 406-417: the totals are written and the run exits with 0
Finish ==
  /\ pc \in {"chunks", "players"}
  /\ world_rows' = print_world_contents(world_inv)
  /\ pc' = "done"
  /\ UNCHANGED <<world_inv, observed, verbose, objects_done, players_done, inv_rows, last>>

Next ==
  \/ \E chunk \in Chunks : ChunkStep(chunk)
  \/ \E uuid \in Uuids, nbtfile \in PlayerSaves : PlayerStep(uuid, nbtfile)
  \/ Finish

Spec == Init /\ [][Next]_vars

\* ================================================================ claims
RECURSIVE SumCounts(_)
SumCounts(items) ==
  IF items = <<>> THEN 0 ELSE Head(items).count + SumCounts(Tail(items))

\* the stacks of items that stack.equals
RECURSIVE SameClass(_, _)
SameClass(items, stack) ==
  IF items = <<>> THEN <<>>
  ELSE IF equals(stack, Head(items)) THEN <<Head(items)>> \o SameClass(Tail(items), stack)
  ELSE SameClass(Tail(items), stack)

\* C1: conservation - after any sequence of update_world_totals calls on an
\* empty world_inv, the counts of all buckets add up to the counts of all the
\* stacks passed in.
C1_Conservation == SumCounts(world_inv) = SumCounts(observed)

\* three stacks passed in, one of them merged into an existing bucket
C1_Witness == Len(observed) = 3 /\ Len(world_inv) = 2 /\ SumCounts(observed) > 3

\* C2: per class - no two buckets of world_inv are equivalent, every stack
\* observed has exactly one bucket equivalent to it, and that bucket's count
\* is the sum of the counts of the observed stacks of its class.
C2_PerClass ==
  /\ \A i, j \in DOMAIN world_inv : i # j => ~equals(world_inv[i], world_inv[j])
  /\ \A k \in DOMAIN observed :
       /\ Cardinality({ i \in DOMAIN world_inv : equals(observed[k], world_inv[i]) }) = 1
       /\ \A i \in DOMAIN world_inv :
            equals(observed[k], world_inv[i])
              => world_inv[i].count = SumCounts(SameClass(observed, observed[k]))

\* two classes observed, one of them through two stacks of different damage
C2_Witness ==
  /\ Len(observed) = 3 /\ Len(world_inv) = 2
  /\ \E i, j \in DOMAIN observed :
       /\ i < j
       /\ equals(observed[i], observed[j])
       /\ observed[i].damage # observed[j].damage
       /\ world_inv[1].count = observed[i].count + observed[j].count

C4_UnprefixedMerge ==
  (/\ Len(observed) = 2
   /\ observed[1].full_name = observed[2].full_name
   /\ \/ /\ observed[1].full_name = Raw("iron_sword")
         /\ observed[1].lore = observed[2].lore
         /\ observed[1].damage = 5 /\ observed[2].damage = 12
      \/ /\ observed[1].full_name = Raw("diamond_helmet")
         /\ observed[1].damage = 0 /\ observed[2].damage = 3)
  => (Len(world_inv) = 1 /\ world_inv[1].count = observed[1].count + observed[2].count)

\* ---------------------------------------------- the last extractor call
\* the stacks handed to update_world_totals during the last call
MergedInCall == SubSeq(observed, last.nobs + 1, Len(observed))

IsRecognized(o) == o.id \in (valid_item_names \cup valid_mob_names)

\* the recognized objects of the last chunk, in discovery order
RecLive == SelectSeq(last.arg.Entities, IsRecognized)
RecTile == SelectSeq(last.arg.TileEntities, IsRecognized)

\* the item list of an object: of a live entity under 'Items' or under
\* 'Inventory' by its type, of a block-anchored entity under 'Items'
LiveList(e) == IF items_under_Items(e.id) THEN e.Items ELSE e.Inventory
ListOf(k) == IF k <= Len(RecLive) THEN LiveList(RecLive[k]) ELSE RecTile[k - Len(RecLive)].Items
NodesOf(k) == IF ListOf(k).some THEN ListOf(k).val ELSE <<>>

\* the stack of an item node that carries the required fields
StackOf(n) == Item(n.id, n.Count, n.Damage, IF n.tag.shape = "lore" THEN n.tag.lore ELSE "")

Complete(tag) == tag.some /\ Required \subseteq tag.val.has
EquipStack(tag) == Item(tag.val.id, tag.val.Count, tag.val.Damage, "")
EquipStacks(e) ==
  (IF Complete(e.ArmorItem) THEN <<EquipStack(e.ArmorItem)>> ELSE <<>>)
  \o (IF Complete(e.SaddleItem) THEN <<EquipStack(e.SaddleItem)>> ELSE <<>>)

Occurs(x, seq) == \E k \in DOMAIN seq : seq[k] = x

RECURSIVE SumLen(_, _, _)
SumLen(F(_), n, k) == IF k > n THEN 0 ELSE F(k) + SumLen(F, n, k + 1)

\* C5: an item node lacking id, Count or Damage is the only node dropped -
\* every sibling of the list that carries them is merged into world totals
\* and, in verbose mode, is a stack of the object's record.
C5_OnlyBadNodeDropped ==
  (last.fn = "chunk" /\ last.raised = "none")
  => \A k \in 1..(Len(RecLive) + Len(RecTile)) :
       \A m \in DOMAIN NodesOf(k) :
         Required \subseteq NodesOf(k)[m].has
           => /\ Occurs(StackOf(NodesOf(k)[m]), MergedInCall)
              /\ verbose => Occurs(StackOf(NodesOf(k)[m]), last.ret[k].items)

\* C6: whatever the shape of the lore path of an item node (absent at any
\* level, an empty Lore list, a node of the wrong shape) the scan raises
\* nothing and the node's stack is merged with lore "".
C6_LorePathNeverRaises ==
  last.fn = "chunk"
  => /\ last.raised = "none"
     /\ \A k \in 1..(Len(RecLive) + Len(RecTile)) :
          (\A m \in DOMAIN NodesOf(k) : Required \subseteq NodesOf(k)[m].has)
            => \A m \in DOMAIN NodesOf(k) :
                 NodesOf(k)[m].tag.shape # "lore"
                   => LET n == NodesOf(k)[m] IN
                        Occurs(Item(n.id, n.Count, n.Damage, ""), MergedInCall)

\* C7: a file named like a player save that has no bukkit subtree, or no
\* lastPlayed in it, is skipped - the run does not abort on it, in verbose
\* mode or not.
C7_NonPlayerFileSkipped ==
  (last.fn = "player" /\ ~(last.arg.bukkit /\ last.arg.lastPlayed))
  => pc # "crashed"

\* C8: player_inv on a save without bukkit, or without lastPlayed in bukkit,
\* returns no record and leaves world_inv as it was, whatever Inventory and
\* Pos hold.
C8_NonPlayerNoEffect ==
  (last.fn = "player" /\ ~(last.arg.bukkit /\ last.arg.lastPlayed))
  => /\ last.ret.kind = "None"
     /\ last.raised = "none"
     /\ world_inv = last.before
     /\ MergedInCall = <<>>

\* a save with an Inventory and a Pos but no lastPlayed, read when world_inv
\* already holds buckets
C8_Witness ==
  /\ last.fn = "player"
  /\ last.arg.bukkit /\ ~last.arg.lastPlayed
  /\ last.arg.Inventory.some /\ last.arg.Pos.some
  /\ Len(world_inv) > 0

\* the objects the returned records stand for, and the objects expected
Label(full_name, x, y, z) == <<full_name, x, y, z>>
RetLabels ==
  [k \in DOMAIN last.ret |->
     Label(last.ret[k].full_name, last.ret[k].x, last.ret[k].y, last.ret[k].z)]
ExpectedLabels ==
  [k \in DOMAIN RecLive |->
     Label(RecLive[k].id, RecLive[k].Pos[1], RecLive[k].Pos[2], RecLive[k].Pos[3])]
  \o [k \in DOMAIN RecTile |->
        Label(RecTile[k].id, RecTile[k].x, RecTile[k].y, RecTile[k].z)]

NonMountTypes ==
  { Mc("chest_minecart"), Mc("hopper_minecart"), Mc("villager"), Mc("zombie_villager") }

\* the equipment stacks the original statement allows an entity
AllowedEquipment(k) ==
  IF RecLive[k].id \in NonMountTypes THEN 0 ELSE Len(EquipStacks(RecLive[k]))
AnyEquipment(k) == Len(EquipStacks(RecLive[k]))
NodeCount(k) == Len(NodesOf(k))

====
